---- MODULE Spec2Model ----
(***************************************************************************)
(* Room synchronization engine of minebuilder:                            *)
(* src/app/api/building/[roomId]/route.ts (the variant with player        *)
(* tracking, lines 155-365).  One Node.js event loop: a handler runs      *)
(* without preemption between two of its await points.                    *)
(***************************************************************************)
EXTENDS Integers, Sequences, FiniteSets, TLC

\* ---------------------------------------------------------------- bounds
\* Number of things the peers do in one behaviour: a GET sent, a POST sent,
\* a transport lost, a request aborted.
MaxOps == 4

\* Identities of the GET requests (one stream each) and of the POST requests.
Conns == 1..MaxOps
Reqs == 1..MaxOps

\* ------------------------------------------------------- input alphabets
RoomIds == {"r1", "r2"}
Names == {"Alice", "Bob"}
\* The value of searchParams.get('name') when the query has no name.
NoName == "<null>"

\* IBlockPosition (the optional blockType/color pass through untouched).
Block(i) == [id |-> i, x |-> (IF i = "b1" THEN 0 ELSE 1), y |-> 0, z |-> 0]

\* The JavaScript value undefined, as an element of room.blocks.
Undefined == [undefined |-> TRUE]
\* What JSON.stringify writes for an undefined element of an array.
Null == [null |-> TRUE]

Origin == [x |-> 0, y |-> 0, z |-> 0]
Moved == [x |-> 2, y |-> 0, z |-> 3]
MovedOn == [x |-> 5, y |-> 1, z |-> 5]

Has(d, f) == f \in DOMAIN d

\* Request bodies of POST, after req.json().  A field that the body does not
\* carry is absent from the record.
AddB1 == [action |-> "add", block |-> Block("b1"), sender |-> "Alice"]
AddB2 == [action |-> "add", block |-> Block("b2"), sender |-> "Bob"]
RemoveB1 == [action |-> "remove", blockId |-> "b1", sender |-> "Bob"]
ClearAll == [action |-> "clear", sender |-> "Alice"]
MoveAlice == [action |-> "update_position", sender |-> "Alice", position |-> Moved]
\* An add of a third block.
AddB3 == [action |-> "add", block |-> Block("b3"), sender |-> "Alice"]

\* A body without the field its action needs, and one with an unknown tag.
AddNoBlock == [action |-> "add", sender |-> "Alice"]
Paint == [action |-> "paint", sender |-> "Alice"]

\* update_position bodies without the sender, and without the position.
MoveNoSender == [action |-> "update_position", position |-> Moved]
MoveNoPosition == [action |-> "update_position", sender |-> "Alice"]
\* A second position for the same sender.
MoveAliceOn == [action |-> "update_position", sender |-> "Alice", position |-> MovedOn]

Bodies == {AddB1, AddB2, RemoveB1, ClearAll, MoveAlice, AddNoBlock, Paint}
\* The bodies sent where several rooms are in play: one that changes the
\* blocks, one that changes the players.
FewBodies == {AddB1, MoveAlice}

\* The bodies of update_position, with one add.
MoveBodies == {MoveAlice, MoveAliceOn, MoveNoSender, MoveNoPosition, AddB1}

\* Adds of three blocks and the remove of one of them.
OrderBodies == {AddB1, AddB2, AddB3, RemoveB1}

\* ----------------------------------------------------------------- state
VARIABLES
    rooms,   \* the module-level Map: roomId -> room, or NoRoom when absent
    conn,    \* per GET request: where its handler stands, its bindings, the
             \* state of its transport, nb of its room when it attached and
             \* whether the handler registered the player (line 214)
    chan,    \* per GET request: the frames enqueued on its controller
    post,    \* per POST request: where its handler stands
    nb,      \* per room: how many times broadcastToRoom was called (history)
    stamp,   \* per GET request: for each frame of chan, the value of nb of
             \* the broadcastToRoom call that wrote it, 0 for init (history)
    ops,     \* how many things the peers have done so far (history)
    live,    \* per room: the ids added and not removed since, and whether all
             \* submissions to the room were add, remove or update_position
             \* (history)
    last,    \* the handler run that returned last: its input and response
    client,  \* per browser tab (MinecraftBuilder.tsx): its user name, its
             \* EventSource, its blocks state and the meshes of its scene
    sent     \* per POST request: the body a tab gave to fetch, if any

vars == <<rooms, conn, chan, post, nb, stamp, ops, live, last, client, sent>>
\* The variables of the tabs.
cvars == <<client, sent>>

NoRoom == [absent |-> TRUE]
NewRoom == [blocks |-> <<>>, clients |-> <<>>, players |-> <<>>]
Exists(r) == rooms[r] # NoRoom


Range(s) == {s[i] : i \in DOMAIN s}
Remove(s, e) == SelectSeq(s, LAMBDA x : x # e)

\* ------------------------------------------------------------ room store
\* getOrCreateRoom that creates the room with a player already in it.
getOrCreateRoomSeeded(rs, r) ==
    IF rs[r] = NoRoom
    THEN [rs EXCEPT ![r] = [NewRoom EXCEPT !.players =
                                <<[x |-> 0, y |-> 0, z |-> 0, name |-> "Anonymous"]>>]]
    ELSE rs

\* getOrCreateRoom(roomId): the Map after the call.
getOrCreateRoom(rs, r) ==
    IF rs[r] = NoRoom THEN [rs EXCEPT ![r] = NewRoom] ELSE rs

\* room.players is a Map keyed by name; its values in insertion order.
PlayerNames(room) == {room.players[i].name : i \in DOMAIN room.players}
HasPlayer(room, n) == n \in PlayerNames(room)
NewPlayer(n) == [x |-> 0, y |-> 0, z |-> 0, name |-> n]
\* room.players.set(n, ...) for a name that is not a key yet.
SetPlayer(room, n) == [room EXCEPT !.players = Append(@, NewPlayer(n))]
\* room.players.delete(n)
DeletePlayer(room, n) ==
    [room EXCEPT !.players = SelectSeq(@, LAMBDA p : p.name # n)]
\* player.x = position.x; player.y = ...; player.z = ... on the entry of n.
MovePlayer(room, n, pos) ==
    [room EXCEPT !.players =
        [i \in DOMAIN @ |->
            IF @[i].name = n
            THEN [x |-> pos.x, y |-> pos.y, z |-> pos.z, name |-> n]
            ELSE @[i]]]

\* -------------------------------------------------------------- broadcast
\* controller.enqueue throws when the stream of c was closed or cancelled.
EnqueueThrows(c) == conn[c].broken

\* SendTo with the frame put ahead of what the channel already holds.
SendToFront(c, st, ev, n) ==
    IF EnqueueThrows(c)
    THEN [st EXCEPT !.clients = Remove(@, c)]
    ELSE [st EXCEPT !.chan[c] = <<ev>> \o @, !.stamp[c] = <<n>> \o @]

\* SendTo that skips the channel of the connection whose display name is the
\* sender of the event (the name, for player_moved).
SendToOthers(c, st, ev, n) ==
    IF \/ (Has(ev, "sender") /\ ev.sender = conn[c].name)
       \/ (ev.type = "player_moved" /\ ev.name = conn[c].name)
    THEN st
    ELSE IF EnqueueThrows(c)
         THEN [st EXCEPT !.clients = Remove(@, c)]
         ELSE [st EXCEPT !.chan[c] = Append(@, ev), !.stamp[c] = Append(@, n)]

\* SendTo whose catch clause leaves the controller in room.clients.
SendToKeep(c, st, ev, n) ==
    IF EnqueueThrows(c)
    THEN st
    ELSE [st EXCEPT !.chan[c] = Append(@, ev), !.stamp[c] = Append(@, n)]

\* The callback of room.clients.forEach: st holds the subscriber set, the
\* channels and the stamps while the iteration runs.
SendTo(c, st, ev, n) ==
    IF EnqueueThrows(c)
    THEN [st EXCEPT !.clients = Remove(@, c)]
    ELSE [st EXCEPT !.chan[c] = Append(@, ev), !.stamp[c] = Append(@, n)]

\* ForEachClient without the try/catch around the write: the first failing
\* write ends the iteration.
RECURSIVE ForEachClientAbort(_, _, _, _, _)
ForEachClientAbort(i, entries, st, ev, n) ==
    IF i > Len(entries) THEN st
    ELSE IF EnqueueThrows(entries[i]) THEN st
         ELSE ForEachClientAbort(i + 1, entries,
                  [st EXCEPT !.chan[entries[i]] = Append(@, ev),
                             !.stamp[entries[i]] = Append(@, n)], ev, n)

\* ForEachClient as a loop over an array that starts over from the first
\* entry after it spliced out the controller whose write failed.
RECURSIVE ForEachClientRestart(_, _, _, _, _)
ForEachClientRestart(i, entries, st, ev, n) ==
    IF i > Len(entries) THEN st
    ELSE IF EnqueueThrows(entries[i])
         THEN ForEachClientRestart(1, Remove(entries, entries[i]),
                  [st EXCEPT !.clients = Remove(@, entries[i])], ev, n)
         ELSE ForEachClientRestart(i + 1, entries,
                  SendTo(entries[i], st, ev, n), ev, n)

\* Set.prototype.forEach over the entries in insertion order: an entry that
\* was deleted before its turn is skipped, deleting the current entry does
\* not disturb the entries after it.
RECURSIVE ForEachClient(_, _, _, _, _)
ForEachClient(i, entries, st, ev, n) ==
    IF i > Len(entries) THEN st
    ELSE IF entries[i] \notin Range(st.clients)
         THEN ForEachClient(i + 1, entries, st, ev, n)
         ELSE ForEachClient(i + 1, entries, SendTo(entries[i], st, ev, n), ev, n)

\* broadcastToRoom that also enqueues the event on the controllers of the
\* other rooms of the Map.
broadcastToEveryRoom(sys, r, ev) ==
    IF sys.rooms[r] = NoRoom THEN sys
    ELSE LET n == sys.nb[r] + 1
             st == ForEachClient(1, sys.rooms[r].clients,
                       [clients |-> sys.rooms[r].clients,
                        chan |-> sys.chan, stamp |-> sys.stamp], ev, n)
             others == UNION {Range(sys.rooms[r2].clients) :
                                 r2 \in {x \in DOMAIN sys.rooms \ {r} :
                                            sys.rooms[x] # NoRoom}}
         IN [rooms |-> [sys.rooms EXCEPT ![r].clients = st.clients],
             chan |-> [k \in DOMAIN st.chan |->
                          IF k \in others THEN Append(st.chan[k], ev)
                          ELSE st.chan[k]],
             stamp |-> [k \in DOMAIN st.stamp |->
                          IF k \in others THEN Append(st.stamp[k], n)
                          ELSE st.stamp[k]],
             nb |-> [sys.nb EXCEPT ![r] = n]]

\* broadcastToRoom(roomId, data) on a system state
\* sys = [rooms, chan, stamp, nb].
broadcastToRoom(sys, r, ev) ==
    IF sys.rooms[r] = NoRoom THEN sys
    ELSE LET n == sys.nb[r] + 1
             st == ForEachClient(1, sys.rooms[r].clients,
                       [clients |-> sys.rooms[r].clients,
                        chan |-> sys.chan, stamp |-> sys.stamp], ev, n)
         IN [rooms |-> [sys.rooms EXCEPT ![r].clients = st.clients],
             chan |-> st.chan, stamp |-> st.stamp,
             nb |-> [sys.nb EXCEPT ![r] = n]]

Sys == [rooms |-> rooms, chan |-> chan, stamp |-> stamp, nb |-> nb]

\* ------------------------------------------------------------------ events
\* JSON.stringify of room.blocks: an undefined element is written as null.
JsonBlocks(blocks) ==
    [i \in DOMAIN blocks |-> IF blocks[i] = Undefined THEN Null ELSE blocks[i]]

InitEvent(room) ==
    [type |-> "init", blocks |-> JsonBlocks(room.blocks), players |-> room.players]
JoinedEvent(n, room) ==
    [type |-> "player_joined", name |-> n, playerCount |-> Len(room.players)]
\* LeftEvent carrying the number of players before the player was deleted.
LeftEventBefore(n, room) ==
    [type |-> "player_left", name |-> n, playerCount |-> Len(room.players) + 1]

LeftEvent(n, room) ==
    [type |-> "player_left", name |-> n, playerCount |-> Len(room.players)]
AddEvent(d) == [type |-> "add", block |-> d.block, sender |-> d.sender]
\* JSON.stringify drops a field whose value is undefined.
RemoveEvent(d) ==
    IF Has(d, "blockId")
    THEN [type |-> "remove", blockId |-> d.blockId, sender |-> d.sender]
    ELSE [type |-> "remove", sender |-> d.sender]
ClearEvent == [type |-> "clear"]
MovedEvent(d) == [type |-> "player_moved", name |-> d.sender, position |-> d.position]

\* One more thing done by a peer.
PeerOp == ops < MaxOps /\ ops' = ops + 1

\* ------------------------------------------------------ the POST handler
\* PushBlock as `room.blocks = [data.block]`: what the array held is lost.
PushBlockLossy(blocks, d) ==
    <<IF Has(d, "block") THEN d.block ELSE Undefined>>

\* PushBlock as room.blocks.unshift(data.block): the block goes first.
PushBlockFront(blocks, d) ==
    <<IF Has(d, "block") THEN d.block ELSE Undefined>> \o blocks

\* room.blocks.push(data.block)
PushBlock(blocks, d) ==
    Append(blocks, IF Has(d, "block") THEN d.block ELSE Undefined)

\* The callback of filter reads block.id: a TypeError on an undefined entry.
FilterThrows(blocks) == \E i \in DOMAIN blocks : blocks[i] = Undefined

\* room.blocks.filter(block => block.id !== data.blockId)
FilterBlocks(blocks, d) ==
    SelectSeq(blocks, LAMBDA b : ~(Has(d, "blockId") /\ b.id = d.blockId))

\* SubmitAdd that takes the push back and answers 500 when the broadcast
\* detached a controller.
SubmitAddStrict(s1, r, d) ==
    LET s2 == [s1 EXCEPT !.rooms[r].blocks = PushBlock(@, d)]
        s3 == broadcastToRoom(s2, r, AddEvent(d))
    IN  IF Has(d, "block")
        THEN IF s3.rooms[r].clients = s2.rooms[r].clients
             THEN [sys |-> s3, status |-> 200]
             ELSE [sys |-> [s3 EXCEPT !.rooms[r].blocks = s1.rooms[r].blocks],
                   status |-> 500]
        ELSE [sys |-> s2, status |-> 500]

\* case "add", lines 285-295, on the state s1 after getOrCreateRoom.
SubmitAdd(s1, r, d) ==
    LET s2 == [s1 EXCEPT !.rooms[r].blocks = PushBlock(@, d)]
    IN  IF Has(d, "block")
        THEN [sys |-> broadcastToRoom(s2, r, AddEvent(d)), status |-> 200]
        \* data.block.x in the log line throws: the catch clause answers 500
        ELSE [sys |-> s2, status |-> 500]

\* SubmitRemove that filters only for a sender who is a player of the room.
SubmitRemoveByPlayer(s1, r, d) ==
    IF FilterThrows(s1.rooms[r].blocks)
    THEN [sys |-> s1, status |-> 500]
    ELSE [sys |-> broadcastToRoom(
                    [s1 EXCEPT !.rooms[r].blocks =
                        IF Has(d, "sender") /\ HasPlayer(s1.rooms[r], d.sender)
                        THEN FilterBlocks(@, d) ELSE @],
                    r, RemoveEvent(d)),
          status |-> 200]

\* case "remove", lines 297-308.
SubmitRemove(s1, r, d) ==
    IF FilterThrows(s1.rooms[r].blocks)
    THEN [sys |-> s1, status |-> 500]
    ELSE [sys |-> broadcastToRoom(
                    [s1 EXCEPT !.rooms[r].blocks = FilterBlocks(@, d)],
                    r, RemoveEvent(d)),
          status |-> 200]

\* SubmitClear that broadcasts the event and leaves room.blocks as it is.
SubmitClearKeep(s1, r, d) ==
    [sys |-> broadcastToRoom(s1, r, ClearEvent), status |-> 200]

\* case "clear", lines 310-316.
SubmitClear(s1, r, d) ==
    [sys |-> broadcastToRoom([s1 EXCEPT !.rooms[r].blocks = <<>>], r, ClearEvent),
     status |-> 200]

\* SubmitMove that registers the sender when room.players lacks the name.
SubmitMoveUpsert(s1, r, d) ==
    IF Has(d, "sender") /\ Has(d, "position")
    THEN LET s2 == IF HasPlayer(s1.rooms[r], d.sender) THEN s1
                   ELSE [s1 EXCEPT !.rooms[r] = SetPlayer(@, d.sender)]
         IN  [sys |-> broadcastToRoom(
                        [s2 EXCEPT !.rooms[r] = MovePlayer(@, d.sender, d.position)],
                        r, MovedEvent(d)),
              status |-> 200]
    ELSE [sys |-> s1, status |-> 200]

\* SubmitMove that assigns x alone and leaves y and z of the player.
SubmitMoveX(s1, r, d) ==
    IF Has(d, "sender") /\ Has(d, "position") /\ HasPlayer(s1.rooms[r], d.sender)
    THEN [sys |-> broadcastToRoom(
                    [s1 EXCEPT !.rooms[r].players =
                        [i \in DOMAIN @ |->
                            IF @[i].name = d.sender
                            THEN [@[i] EXCEPT !.x = d.position.x]
                            ELSE @[i]]],
                    r, MovedEvent(d)),
          status |-> 200]
    ELSE [sys |-> s1, status |-> 200]

\* case "update_position", lines 318-334.
SubmitMove(s1, r, d) ==
    IF Has(d, "sender") /\ Has(d, "position") /\ HasPlayer(s1.rooms[r], d.sender)
    THEN [sys |-> broadcastToRoom(
                    [s1 EXCEPT !.rooms[r] = MovePlayer(@, d.sender, d.position)],
                    r, MovedEvent(d)),
          status |-> 200]
    ELSE [sys |-> s1, status |-> 200]

\* SubmitDefault falling through to the success response.
SubmitDefaultOk(s1, r, d) == [sys |-> s1, status |-> 200]

\* default, lines 336-337.
SubmitDefault(s1, r, d) == [sys |-> s1, status |-> 400]

\* The try block of POST from getOrCreateRoom on (lines 282-344): the system
\* state it leaves and the status of the response.
Submit(sys, r, d) ==
    LET s1 == [sys EXCEPT !.rooms = getOrCreateRoom(sys.rooms, r)]
    IN  CASE d.action = "add" -> SubmitAdd(s1, r, d)
          [] d.action = "remove" -> SubmitRemove(s1, r, d)
          [] d.action = "clear" -> SubmitClear(s1, r, d)
          [] d.action = "update_position" -> SubmitMove(s1, r, d)
          [] OTHER -> SubmitDefault(s1, r, d)

\* History of the submissions to one room: the ids whose last add no remove
\* of the id and no clear followed, and whether every submission was add,
\* remove or update_position.
LiveAfter(h, d) ==
    [ids |-> CASE d.action = "add" /\ Has(d, "block") -> h.ids \cup {d.block.id}
               [] d.action = "remove" /\ Has(d, "blockId") -> h.ids \ {d.blockId}
               [] d.action = "clear" -> {}
               [] OTHER -> h.ids,
     only |-> h.only /\ d.action \in {"add", "remove", "update_position"}]

\* A POST arrives; the handler runs to `await params`.
PostStart(q) ==
    /\ PeerOp
    /\ post[q].pc = "idle"
    /\ IF q = 1 THEN TRUE ELSE post[q - 1].pc # "idle"
    /\ post' = [post EXCEPT ![q].pc = "params"]
    /\ UNCHANGED <<rooms, conn, chan, nb, stamp, live, last>>

\* `await params` resolves to roomId r; the handler runs to `await req.json()`.
PostParams(q, r) ==
    /\ post[q].pc = "params"
    /\ post' = [post EXCEPT ![q] = [pc |-> "json", room |-> r]]
    /\ UNCHANGED <<rooms, conn, chan, nb, stamp, live, last, ops>>

\* req.json() resolves to d; the handler runs to its return.
PostBody(q, d) ==
    /\ post[q].pc = "json"
    /\ LET r == post[q].room
           res == Submit(Sys, r, d)
       IN  /\ rooms' = res.sys.rooms
           /\ chan' = res.sys.chan
           /\ stamp' = res.sys.stamp
           /\ nb' = res.sys.nb
           /\ live' = [live EXCEPT ![r] = LiveAfter(@, d)]
           /\ last' = [op |-> "post", room |-> r, data |-> d,
                       status |-> res.status]
    /\ post' = [post EXCEPT ![q].pc = "done"]
    /\ UNCHANGED <<conn, ops>>

\* req.json() rejects (the body is not JSON): the catch clause answers 500.
PostBadJson(q) ==
    /\ post[q].pc = "json"
    /\ post' = [post EXCEPT ![q].pc = "done"]
    /\ last' = [op |-> "post_badjson", room |-> post[q].room,
                status |-> 500]
    /\ live' = [live EXCEPT ![post[q].room].only = FALSE]
    /\ UNCHANGED <<rooms, conn, chan, nb, stamp, ops>>

\* ------------------------------------------------------- the GET handler
\* req.nextUrl.searchParams.get('name') || 'Anonymous'
PlayerName(n) == IF n = NoName THEN "Anonymous" ELSE n

\* Join without the player_joined broadcast.
JoinSilent(sys, r, pn) ==
    LET s1 == [sys EXCEPT !.rooms = getOrCreateRoom(sys.rooms, r)]
    IN  IF HasPlayer(s1.rooms[r], pn) THEN s1
        ELSE [s1 EXCEPT !.rooms[r] = SetPlayer(@, pn)]

\* Join that puts a player who is already in room.players back at the
\* origin.
JoinReset(sys, r, pn) ==
    LET s1 == [sys EXCEPT !.rooms = getOrCreateRoom(sys.rooms, r)]
    IN  IF HasPlayer(s1.rooms[r], pn)
        THEN [s1 EXCEPT !.rooms[r] = MovePlayer(@, pn, Origin)]
        ELSE LET s2 == [s1 EXCEPT !.rooms[r] = SetPlayer(@, pn)]
             IN  broadcastToRoom(s2, r, JoinedEvent(pn, s2.rooms[r]))

\* Lines 211-228: getOrCreateRoom, then the registration of the player and
\* the player_joined broadcast when the name is not a key of room.players.
Join(sys, r, pn) ==
    LET s1 == [sys EXCEPT !.rooms = getOrCreateRoom(sys.rooms, r)]
    IN  IF HasPlayer(s1.rooms[r], pn) THEN s1
        ELSE LET s2 == [s1 EXCEPT !.rooms[r] = SetPlayer(@, pn)]
             IN  broadcastToRoom(s2, r, JoinedEvent(pn, s2.rooms[r]))

\* Attach with the snapshot read before the handler registered the player.
AttachStale(sys, r, c) ==
    [sys EXCEPT !.chan[c] = <<InitEvent(IF Exists(r) THEN rooms[r] ELSE NewRoom)>>,
                !.stamp[c] = <<0>>,
                !.rooms[r].clients = Append(@, c)]

\* Attach that hands the init frame to broadcastToRoom once the controller
\* is in room.clients: every controller of the room is written it.
AttachToAll(sys, r, c) ==
    LET s1 == [sys EXCEPT !.chan[c] = <<>>, !.stamp[c] = <<>>,
                          !.rooms[r].clients = Append(@, c)]
        ev == InitEvent(sys.rooms[r])
    IN  [s1 EXCEPT !.chan = [k \in DOMAIN @ |->
                                IF k \in Range(s1.rooms[r].clients)
                                THEN Append(@[k], ev) ELSE @[k]],
                   !.stamp = [k \in DOMAIN @ |->
                                IF k \in Range(s1.rooms[r].clients)
                                THEN Append(@[k], 0) ELSE @[k]]]

\* start(controller), lines 234-247: the init frame is enqueued on the new
\* controller, then the controller joins room.clients.
Attach(sys, r, c) ==
    [sys EXCEPT !.chan[c] = <<InitEvent(sys.rooms[r])>>,
                !.stamp[c] = <<0>>,
                !.rooms[r].clients = Append(@, c)]

\* A GET arrives; the handler runs to `await params`.
GetStart(c) ==
    /\ PeerOp
    /\ conn[c].pc = "idle"
    /\ IF c = 1 THEN TRUE ELSE conn[c - 1].pc # "idle"
    /\ conn' = [conn EXCEPT ![c].pc = "params"]
    /\ UNCHANGED <<rooms, chan, post, nb, stamp, live, last>>

\* The peer goes away while the handler is suspended: req.signal aborts
\* before any listener is registered on it.
AbortEarly(c) ==
    /\ PeerOp
    /\ conn[c].pc = "params"
    /\ ~conn[c].aborted
    /\ conn' = [conn EXCEPT ![c].aborted = TRUE]
    /\ UNCHANGED <<rooms, chan, post, nb, stamp, live, last>>

\* `await params` resolves to roomId r, the query names n; the handler runs
\* to its return (the stream's start callback runs inside the constructor).
GetBody(c, r, n) ==
    /\ conn[c].pc = "params"
    /\ LET pn == PlayerName(n)
           res == Attach(Join(Sys, r, pn), r, c)
       IN  /\ rooms' = res.rooms
           /\ chan' = res.chan
           /\ stamp' = res.stamp
           /\ nb' = res.nb
           /\ conn' = [conn EXCEPT ![c].pc = "open", ![c].room = r,
                                   ![c].name = pn, ![c].since = res.nb[r],
                                   ![c].fresh = IF Exists(r)
                                                THEN ~HasPlayer(rooms[r], pn)
                                                ELSE TRUE]
           /\ last' = [op |-> "get", id |-> c, room |-> r, name |-> pn,
                       fresh |-> IF Exists(r) THEN ~HasPlayer(rooms[r], pn) ELSE TRUE]
    /\ UNCHANGED <<post, live, ops>>

\* The transport of c is gone without the abort event having run yet: the
\* stream is cancelled and controller.enqueue throws from now on.
Break(c) ==
    /\ PeerOp
    /\ conn[c].pc = "open"
    /\ ~conn[c].broken
    /\ conn' = [conn EXCEPT ![c].broken = TRUE]
    /\ UNCHANGED <<rooms, chan, post, nb, stamp, live, last>>

\* OnAbort that returns at once when the controller is no longer in
\* room.clients: no player is deleted, nothing is broadcast.
OnAbortIfAttached(sys, r, c, pn) ==
    IF c \notin Range(sys.rooms[r].clients) THEN sys
    ELSE LET s1 == [sys EXCEPT !.rooms[r].clients = Remove(@, c)]
             s2 == [s1 EXCEPT !.rooms[r] = DeletePlayer(@, pn)]
         IN  broadcastToRoom(s2, r, LeftEvent(pn, s2.rooms[r]))

\* OnAbort that drops the room from the Map once it has no controller and no
\* player left.
OnAbortDrop(sys, r, c, pn) ==
    LET s1 == [sys EXCEPT !.rooms[r].clients = Remove(@, c)]
        s2 == [s1 EXCEPT !.rooms[r] = DeletePlayer(@, pn)]
        s3 == broadcastToRoom(s2, r, LeftEvent(pn, s2.rooms[r]))
    IN  IF s3.rooms[r].clients = <<>> /\ s3.rooms[r].players = <<>>
        THEN [s3 EXCEPT !.rooms[r] = NoRoom]
        ELSE s3

\* OnAbort that broadcasts player_left before it takes the controller out of
\* room.clients.
OnAbortNotifyFirst(sys, r, c, pn) ==
    LET s1 == [sys EXCEPT !.rooms[r] = DeletePlayer(@, pn)]
        s2 == broadcastToRoom(s1, r, LeftEvent(pn, s1.rooms[r]))
    IN  [s2 EXCEPT !.rooms[r].clients = Remove(@, c)]

\* The abort listener, lines 250-262.
OnAbort(sys, r, c, pn) ==
    LET s1 == [sys EXCEPT !.rooms[r].clients = Remove(@, c)]
        s2 == [s1 EXCEPT !.rooms[r] = DeletePlayer(@, pn)]
    IN  broadcastToRoom(s2, r, LeftEvent(pn, s2.rooms[r]))

\* req.signal aborts after the listener was registered: the listener runs.
Close(c) ==
    /\ PeerOp
    /\ conn[c].pc = "open"
    /\ ~conn[c].aborted
    /\ LET r == conn[c].room
           res == OnAbort(Sys, r, c, conn[c].name)
       IN  /\ rooms' = res.rooms
           /\ chan' = res.chan
           /\ stamp' = res.stamp
           /\ nb' = res.nb
           /\ last' = [op |-> "close", id |-> c, room |-> r, name |-> conn[c].name]
    /\ conn' = [conn EXCEPT ![c].pc = "closed", ![c].aborted = TRUE,
                            ![c].broken = TRUE]
    /\ UNCHANGED <<post, live>>

\* ------------------------------------------- the tabs (MinecraftBuilder.tsx)
\* The browser tabs that opened the page with ?room=r1, and the user name
\* each one read from localStorage or from the prompt.
Tabs == {1, 2}
UserName(k) == IF k = 1 THEN "Alice" ELSE "Bob"
\* The ids a tab makes up for the blocks it places (Date.now() and a random
\* suffix: no two tabs make the same one).
NewIds(k) == IF k = 1 THEN {"b1", "b3"} ELSE {"b2"}

\* No body: the request was not sent by a tab.
NoBody == [none |-> TRUE]

\* A tab after its first effects: user name set, collaborative, no
\* EventSource yet, nothing built.  es is the GET request of the EventSource
\* in sseClientRef.current (0 for null), handlers whether onmessage and
\* onerror are set on it, opened how many EventSources the tab has created,
\* read how many frames of the stream have reached it, timer whether the
\* reconnect timer is pending.
NewTab(k) ==
    [userName |-> UserName(k), es |-> 0, handlers |-> FALSE, opened |-> 0,
     read |-> 0, timer |-> FALSE, blocks |-> <<>>, scene |-> <<>>]

\* IBlockPosition to IBlock, and back.
ToIBlock(p) == [id |-> p.id, position |-> [x |-> p.x, y |-> p.y, z |-> p.z]]
ToBlockPosition(b) ==
    [id |-> b.id, x |-> b.position.x, y |-> b.position.y, z |-> b.position.z]

\* scene.remove(mesh) for the first mesh whose userData.id is id.
RECURSIVE RemoveMesh(_, _)
RemoveMesh(scene, id) ==
    IF scene = <<>> THEN <<>>
    ELSE IF Head(scene) = id THEN Tail(scene)
    ELSE <<Head(scene)>> \o RemoveMesh(Tail(scene), id)

\* handleSseEvent(data), lines 123-212, on the tab t.  The `blocks` the
\* function reads is the array of the render in which the effect ran, which
\* is empty: the loops over it remove no mesh and the check of the add case
\* finds no block.  A null block or a missing field throws before any state
\* is set (caught at line 94).
handleSseEvent(t, data) ==
    CASE data.type = "init" ->
             IF \E i \in DOMAIN data.blocks : data.blocks[i] = Null THEN t
             ELSE [t EXCEPT
                     !.scene = @ \o [i \in DOMAIN data.blocks |-> data.blocks[i].id],
                     !.blocks = [i \in DOMAIN data.blocks |-> ToIBlock(data.blocks[i])]]
      [] data.type = "add" ->
             IF Has(data, "sender") /\ data.sender = t.userName THEN t
             ELSE IF ~Has(data, "block") THEN t
             ELSE [t EXCEPT !.scene = Append(@, data.block.id),
                            !.blocks = Append(@, ToIBlock(data.block))]
      [] data.type = "remove" ->
             IF Has(data, "sender") /\ data.sender = t.userName THEN t
             ELSE IF Has(data, "blockId") /\ data.blockId \in Range(t.scene)
                  THEN [t EXCEPT !.scene = RemoveMesh(@, data.blockId),
                                 !.blocks = SelectSeq(@, LAMBDA b : b.id # data.blockId)]
                  ELSE t
      [] data.type = "clear" -> [t EXCEPT !.blocks = <<>>]
      [] OTHER -> t

\* The effect of lines 78-120 runs: new EventSource(sseUrl) with onmessage
\* and onerror set; the GET (no name in its query) reaches the server as
\* request c.
TabConnect(k, c) ==
    /\ client[k].es = 0
    /\ GetStart(c)
    /\ client' = [client EXCEPT ![k].es = c, ![k].handlers = TRUE,
                                ![k].opened = 1, ![k].read = 0]
    /\ UNCHANGED sent

\* The next frame of the stream reaches the tab: onmessage, if it is set,
\* parses it and calls handleSseEvent.
TabMessage(k) ==
    LET t == client[k]
    IN  /\ t.es # 0
        /\ t.read < Len(chan[t.es])
        /\ LET u == [t EXCEPT !.read = @ + 1]
           IN  client' = [client EXCEPT ![k] =
                            IF t.handlers THEN handleSseEvent(u, chan[t.es][t.read + 1])
                            ELSE u]
        /\ UNCHANGED <<rooms, conn, chan, post, nb, stamp, ops, live, last, sent>>

\* sendBlockUpdate(action, data), lines 252-270: the POST reaches the server
\* as request q with the body {action, ...data, sender: userName}.
sendBlockUpdate(q, body) ==
    /\ PostStart(q)
    /\ sent' = [sent EXCEPT ![q] = body]

\* handleMouseClick, lines 631-701: a right click places the block of id i
\* unless the tab holds a block at that position.
TabPlace(k, i, q) ==
    LET t == client[k]
        p == Block(i)
    IN  /\ t.es # 0
        /\ i \in NewIds(k)
        /\ \A r \in Reqs : IF Has(sent[r], "block") THEN sent[r].block.id # i ELSE TRUE
        /\ ~\E j \in DOMAIN t.blocks : t.blocks[j].position = ToIBlock(p).position
        /\ client' = [client EXCEPT ![k].scene = Append(@, i),
                                    ![k].blocks = Append(@, ToIBlock(p))]
        /\ sendBlockUpdate(q, [action |-> "add", block |-> p, sender |-> t.userName])

\* handleKeyDown, lines 703-740: 'z' over the j-th mesh of the scene.
TabDelete(k, j, q) ==
    LET t == client[k]
    IN  /\ t.es # 0
        /\ j \in DOMAIN t.scene
        /\ LET id == t.scene[j]
           IN  /\ client' = [client EXCEPT
                               ![k].scene = SubSeq(@, 1, j - 1) \o SubSeq(@, j + 1, Len(@)),
                               ![k].blocks = SelectSeq(@, LAMBDA b : b.id # id)]
               /\ sendBlockUpdate(q, [action |-> "remove", blockId |-> id,
                                      sender |-> t.userName])

\* onerror, lines 103-112: the stream of the EventSource is gone; the
\* reconnect timer is set.
TabError(k) ==
    LET t == client[k]
    IN  /\ t.es # 0
        /\ t.handlers
        /\ conn[t.es].broken
        /\ ~t.timer
        /\ client' = [client EXCEPT ![k].timer = TRUE]
        /\ UNCHANGED <<rooms, conn, chan, post, nb, stamp, ops, live, last, sent>>

\* The timer callback, lines 106-111, after 3000 ms: the current EventSource
\* is closed and sseClientRef.current = new EventSource(sseUrl), on which no
\* handler is set; the GET reaches the server as request c.
TabReconnect(k, c) ==
    /\ client[k].timer
    /\ client[k].es # 0
    /\ GetStart(c)
    /\ client' = [client EXCEPT ![k].timer = FALSE, ![k].es = c,
                                ![k].handlers = FALSE, ![k].opened = @ + 1,
                                ![k].read = 0]
    /\ UNCHANGED sent

\* ---------------------------------------------------------- specification
Init ==
    /\ rooms = [r \in RoomIds |-> NoRoom]
    /\ conn = [c \in Conns |->
                 [pc |-> "idle", room |-> "", name |-> "", since |-> 0,
                  fresh |-> FALSE, aborted |-> FALSE, broken |-> FALSE]]
    /\ chan = [c \in Conns |-> <<>>]
    /\ stamp = [c \in Conns |-> <<>>]
    /\ post = [q \in Reqs |-> [pc |-> "idle", room |-> ""]]
    /\ nb = [r \in RoomIds |-> 0]
    /\ live = [r \in RoomIds |-> [ids |-> {}, only |-> TRUE]]
    /\ ops = 0
    /\ last = [op |-> "none"]
    /\ client = [k \in Tabs |-> NewTab(k)]
    /\ sent = [q \in Reqs |-> NoBody]

\* The steps of the handlers, with the room ids R, the query names N and the
\* request bodies D the peers send (peers that are not the tabs of client).
NextOn(R, N, D) ==
    \/ \E c \in Conns : GetStart(c) /\ UNCHANGED cvars
    \/ \E c \in Conns : AbortEarly(c) /\ UNCHANGED cvars
    \/ \E c \in Conns, r \in R, n \in N : GetBody(c, r, n) /\ UNCHANGED cvars
    \/ \E c \in Conns : Break(c) /\ UNCHANGED cvars
    \/ \E c \in Conns : Close(c) /\ UNCHANGED cvars
    \/ \E q \in Reqs : PostStart(q) /\ UNCHANGED cvars
    \/ \E q \in Reqs, r \in R : PostParams(q, r) /\ UNCHANGED cvars
    \/ \E q \in Reqs, d \in D : PostBody(q, d) /\ UNCHANGED cvars
    \/ \E q \in Reqs : PostBadJson(q) /\ UNCHANGED cvars

\* One room, two display names, every kind of body.
Next == NextOn({"r1"}, Names, Bodies)
Spec == Init /\ [][Next]_vars

\* Two rooms, one display name, an add and an update_position.
NextRooms == NextOn(RoomIds, {"Alice"}, FewBodies)
SpecRooms == Init /\ [][NextRooms]_vars

\* One room, two display names, the update_position bodies.
NextMoves == NextOn({"r1"}, Names, MoveBodies)
SpecMoves == Init /\ [][NextMoves]_vars

\* One room, connections with and without a name in the query.
NextAnon == NextOn({"r1"}, {NoName, "Alice"}, FewBodies)
SpecAnon == Init /\ [][NextAnon]_vars

\* One room, one display name, one body; the continuation of a handler
\* suspended at an await is run in the end (the event loop drains its
\* queue), what the peers do is not forced.
NextLive == NextOn({"r1"}, {"Alice"}, {AddB1})
Resume ==
    \/ \E c \in Conns : GetBody(c, "r1", "Alice") /\ UNCHANGED cvars
    \/ \E q \in Reqs : PostParams(q, "r1") /\ UNCHANGED cvars
    \/ \E q \in Reqs : PostBody(q, AddB1) /\ UNCHANGED cvars
SpecLive == Init /\ [][NextLive]_vars /\ WF_vars(Resume)

\* One room, one display name, adds of three blocks and a remove.
NextOrder == NextOn({"r1"}, {"Alice"}, OrderBodies)
SpecOrder == Init /\ [][NextOrder]_vars

\* One room and its tabs: every GET and every POST is a tab's (the query of
\* the GET carries no name), a transport may be lost.
NextClient ==
    \/ \E k \in Tabs, c \in Conns : TabConnect(k, c)
    \/ \E c \in Conns : GetBody(c, "r1", NoName) /\ UNCHANGED cvars
    \/ \E k \in Tabs : TabMessage(k)
    \/ \E k \in Tabs, i \in {"b1", "b2", "b3"}, q \in Reqs : TabPlace(k, i, q)
    \/ \E k \in Tabs, j \in 1..3, q \in Reqs : TabDelete(k, j, q)
    \/ \E q \in Reqs : PostParams(q, "r1") /\ UNCHANGED cvars
    \/ \E q \in Reqs : sent[q] # NoBody /\ PostBody(q, sent[q]) /\ UNCHANGED cvars
    \/ \E c \in Conns : Break(c) /\ UNCHANGED cvars
    \/ \E c \in Conns : Close(c) /\ UNCHANGED cvars
    \/ \E k \in Tabs : TabError(k)
    \/ \E k \in Tabs, c \in Conns : TabReconnect(k, c)
SpecClient == Init /\ [][NextClient]_vars

\* ================================================================= claims
\* The ids of the blocks an array of room.blocks holds.
BlockIdsOf(blocks) ==
    {blocks[i].id : i \in {j \in DOMAIN blocks : blocks[j] # Undefined}}
Clients(r) == IF Exists(r) THEN Range(rooms[r].clients) ELSE {}
BlocksIn(r) == IF Exists(r) THEN rooms[r].blocks ELSE <<>>

\* C1: in a room that received only add, remove and update_position
\* submissions, the ids of room.blocks are the ids added and not removed by a
\* later remove.
C1_BlockSetIsAddedMinusRemoved ==
    \A r \in RoomIds :
        (Exists(r) /\ live[r].only) => BlockIdsOf(rooms[r].blocks) = live[r].ids

\* C2: the first frame of a channel is the init event holding the blocks and
\* the players of the room as they are when the subscription is made, the
\* subscriber's own player among them.
C2_InitIsSnapshot ==
    last.op = "get" =>
        /\ Len(chan[last.id]) >= 1
        /\ chan[last.id][1] =
               [type |-> "init",
                blocks |-> [i \in DOMAIN rooms[last.room].blocks |->
                              IF rooms[last.room].blocks[i] = Undefined
                              THEN Null ELSE rooms[last.room].blocks[i]],
                players |-> rooms[last.room].players]
        /\ \E i \in DOMAIN chan[last.id][1].players :
               chan[last.id][1].players[i].name = last.name

\* A subscription to a room that holds blocks and had no subscriber while
\* they were added.
C2_Witness ==
    /\ last.op = "get"
    /\ rooms[last.room].blocks # <<>>
    /\ rooms[last.room].clients = <<last.id>>
    /\ conn[last.id].since > 1
    /\ \A c \in Conns \ {last.id} : conn[c].pc \in {"idle", "params"}

\* C3: a channel that is attached has been written every event broadcast in
\* its room since it attached, whichever other channels failed a write and
\* wherever they stood in the iteration; the submit whose broadcast met the
\* failure still answers success.
C3_FailedWriteSparesOthers ==
    /\ \A r \in RoomIds : \A c \in Clients(r) :
           stamp[c] = <<0>> \o [i \in 1..(nb[r] - conn[c].since) |-> conn[c].since + i]
    /\ (last.op = "post" /\ last.data \in {AddB1, AddB2, ClearAll}) => last.status = 200

\* A broadcast met a failing channel first and wrote the event to a channel
\* that comes after it in the iteration.
C3_Witness ==
    \E r \in RoomIds : \E c1, c2 \in Conns :
        /\ conn[c1].pc = "open" /\ conn[c1].room = r /\ conn[c1].broken
        /\ c1 \notin Clients(r)
        /\ c2 \in Clients(r)
        /\ conn[c1].since < conn[c2].since
        /\ stamp[c2][Len(stamp[c2])] = nb[r]
        /\ stamp[c1][Len(stamp[c1])] < nb[r]
        /\ last.op = "post" /\ last.status = 200

\* C4: on every channel the init frame comes first and the broadcast events
\* follow in the order of the broadcastToRoom calls of the room; a call wrote
\* the same event to every channel it reached.
C4_FifoPerChannel ==
    /\ \A c \in Conns : chan[c] # <<>> =>
           /\ Len(stamp[c]) = Len(chan[c])
           /\ stamp[c][1] = 0 /\ chan[c][1].type = "init"
           /\ \A i \in 2..Len(chan[c]) :
                  chan[c][i].type # "init" /\ stamp[c][i] > stamp[c][i - 1]
    /\ \A c1, c2 \in Conns : \A i \in DOMAIN chan[c1], j \in DOMAIN chan[c2] :
           (conn[c1].room = conn[c2].room /\ stamp[c1][i] = stamp[c2][j]
                /\ stamp[c1][i] > 0)
               => chan[c1][i] = chan[c2][j]

\* A channel that was written two different events after its init frame.
C4_Witness ==
    \E c \in Conns :
        Len(chan[c]) >= 3 /\ chan[c][2].type # chan[c][3].type

\* C5: no update is lost, however the POST handlers interleave at their
\* awaits: every id added, and not removed or cleared by a later submit, is in
\* room.blocks, and in the init frame of a subscription made afterwards.
C5_NoLostUpdate ==
    /\ \A r \in RoomIds : live[r].ids \subseteq BlockIdsOf(BlocksIn(r))
    /\ last.op = "get" =>
           live[last.room].ids \subseteq
               {chan[last.id][1].blocks[i].id :
                   i \in {j \in DOMAIN chan[last.id][1].blocks :
                             chan[last.id][1].blocks[j] # Null}}

\* Two adds with distinct ids returned while a POST that arrived before both
\* of them is still suspended at an await; both blocks are in the room.
C5_Witness ==
    /\ post[1].pc \in {"params", "json"}
    /\ post[2].pc = "done" /\ post[3].pc = "done"
    /\ {"b1", "b2"} \subseteq live["r1"].ids
    /\ {"b1", "b2"} \subseteq BlockIdsOf(BlocksIn("r1"))

\* C6: a submit with an unknown action tag is answered 400, leaves the
\* blocks, players and subscribers of the room as they were (the room is
\* created empty if it was absent) and writes nothing to any channel.
C6_InvalidActionRejected ==
    [][\A q \in Reqs :
        PostBody(q, Paint) =>
            /\ last'.status = 400
            /\ rooms' = getOrCreateRoom(rooms, post[q].room)
            /\ chan' = chan
            /\ nb' = nb]_vars

\* A submit with an unknown action tag was answered in a room that holds a
\* block and has a subscriber.
C6_Witness ==
    /\ last.op = "post" /\ last.data = Paint /\ last.status = 400
    /\ BlocksIn(last.room) # <<>>
    /\ Clients(last.room) # {}

\* C7: a submit that lacks a field its action needs is answered with a
\* client error (4xx), room.blocks stays as it was and nothing is broadcast.
C7_MalformedIsClientError ==
    [][\A q \in Reqs :
        PostBody(q, AddNoBlock) =>
            /\ last'.status \in 400..499
            /\ BlocksIn(post[q].room)' = BlocksIn(post[q].room)
            /\ nb' = nb]_vars

\* C8: a remove whose blockId no block of the room has leaves room.blocks as
\* it was, writes the remove event to every attached channel whose write
\* succeeds, and is answered with success.
C8_RemoveOfAbsentIdIsNoOp ==
    [][\A q \in Reqs :
        (PostBody(q, RemoveB1) /\ "b1" \notin BlockIdsOf(BlocksIn(post[q].room))) =>
            /\ last'.status = 200
            /\ BlocksIn(post[q].room)' = BlocksIn(post[q].room)
            /\ \A c \in Clients(post[q].room) :
                   ~conn[c].broken =>
                       chan'[c] = Append(chan[c],
                           [type |-> "remove", blockId |-> "b1", sender |-> "Bob"])]_vars

\* C9: room.blocks never holds two entries with the same id.
C9_OneBlockPerId ==
    \A r \in RoomIds : \A i, j \in DOMAIN BlocksIn(r) :
        (i # j /\ BlocksIn(r)[i] # Undefined /\ BlocksIn(r)[j] # Undefined)
            => BlocksIn(r)[i].id # BlocksIn(r)[j].id

\* C10: after a subscription under a name that was not a player, every other
\* attached channel holds, as its last frame, the one player_joined event of
\* that subscription, and the init frame of the new channel lists the name
\* and every player of the room.
C10_JoinIsAnnounced ==
    (last.op = "get" /\ last.fresh) =>
        /\ \A c \in Clients(last.room) \ {last.id} :
               /\ chan[c][Len(chan[c])] =
                      [type |-> "player_joined", name |-> last.name,
                       playerCount |-> Len(rooms[last.room].players)]
               /\ Cardinality({i \in DOMAIN chan[c] :
                      /\ chan[c][i].type = "player_joined"
                      /\ chan[c][i].name = last.name
                      /\ stamp[c][i] = conn[last.id].since}) = 1
        /\ {chan[last.id][1].players[i].name : i \in DOMAIN chan[last.id][1].players}
               = PlayerNames(rooms[last.room])
        /\ last.name \in PlayerNames(rooms[last.room])
        /\ \A i \in DOMAIN chan[last.id] : chan[last.id][i].type # "player_joined"

\* A second subscriber joined under a new name while the first was attached.
C10_Witness ==
    /\ last.op = "get" /\ last.fresh
    /\ Clients(last.room) \ {last.id} # {}
    /\ Len(rooms[last.room].players) >= 2

\* C11: when the abort listener of a connection runs, its channel leaves
\* room.clients, the players of the room stay as they are unless this
\* connection registered the player (then the name leaves room.players), and
\* every channel that remains attached is written player_left with the name
\* and the number of players after the removal.
C11_CloseRemovesOwnPlayerOnly ==
    [][\A c \in Conns :
        Close(c) =>
            LET r == conn[c].room
            IN  /\ c \notin Range(rooms'[r].clients)
                /\ IF conn[c].fresh
                   THEN conn[c].name \notin PlayerNames(rooms'[r])
                   ELSE rooms'[r].players = rooms[r].players
                /\ \A k \in Range(rooms'[r].clients) :
                       chan'[k] = Append(chan[k],
                           [type |-> "player_left", name |-> conn[c].name,
                            playerCount |-> Len(rooms'[r].players)])]_vars

\* C12: the abort listener of a connection takes effect once.  When it runs,
\* also for a channel that a failed write already detached, the channel is
\* out of room.clients afterwards and broadcastToRoom is called exactly once,
\* with the player_left event of the connection, which every channel that
\* stays attached receives as one new frame.  Once it has run the connection
\* stays closed and detached, and no later player_left is its own.
C12_CleanupOnce ==
    [][\A c \in Conns :
        /\ Close(c) =>
               LET r == conn[c].room
               IN  /\ conn[c].pc = "open" /\ conn'[c].pc = "closed"
                   /\ c \notin Range(rooms'[r].clients)
                   /\ nb'[r] = nb[r] + 1
                   /\ \A k \in Range(rooms'[r].clients) :
                          /\ Len(chan'[k]) = Len(chan[k]) + 1
                          /\ chan'[k][Len(chan'[k])].type = "player_left"
                          /\ chan'[k][Len(chan'[k])].name = conn[c].name
                          /\ stamp'[k][Len(stamp'[k])] = nb'[r]
        /\ conn[c].pc = "closed" =>
               /\ conn'[c].pc = "closed"
               /\ c \notin Range(rooms'[conn[c].room].clients)
               /\ ~ENABLED Close(c)
               /\ \A k \in Conns :
                      (/\ Len(chan'[k]) > Len(chan[k])
                       /\ chan'[k][Len(chan'[k])].type = "player_left")
                          => (last'.op = "close" /\ last'.id # c)]_vars

\* The abort listener ran for a connection whose channel a failed write of an
\* earlier broadcast had already detached; a channel that stays attached was
\* written its player_left.
C12_Witness ==
    /\ last.op = "close"
    /\ conn[last.id].pc = "closed"
    /\ nb[last.room] >= 2
    /\ (nb[last.room] - 1) > conn[last.id].since
    /\ stamp[last.id][Len(stamp[last.id])] < nb[last.room] - 1
    /\ \E k \in Clients(last.room) :
           /\ chan[k][Len(chan[k])].type = "player_left"
           /\ chan[k][Len(chan[k])].name = last.name
           /\ stamp[k][Len(stamp[k])] = nb[last.room]

\* C13: an update_position whose sender is not a key of room.players, or
\* that carries no sender or no position, is answered with success, leaves
\* the players (and the rest of the room) as they were, creates no player and
\* writes nothing to any channel.
C13_StaleMoveIsSilent ==
    [][\A q \in Reqs : \A d \in {MoveAlice, MoveNoSender, MoveNoPosition} :
        (/\ PostBody(q, d)
         /\ \/ ~Has(d, "sender")
            \/ ~Has(d, "position")
            \/ d.sender \notin PlayerNames(getOrCreateRoom(rooms, post[q].room)[post[q].room]))
            => /\ last'.status = 200
               /\ rooms' = getOrCreateRoom(rooms, post[q].room)
               /\ chan' = chan
               /\ nb' = nb]_vars

\* An update_position for Alice was answered with success in a room that has
\* a subscriber and a player, none of them Alice.
C13_Witness ==
    /\ last.op = "post" /\ last.data = MoveAlice /\ last.status = 200
    /\ Clients(last.room) # {}
    /\ PlayerNames(rooms[last.room]) = {"Bob"}
    /\ \A c \in Clients(last.room) :
           \A i \in DOMAIN chan[c] : chan[c][i].type # "player_moved"

\* C14: after a successful add, remove or clear, or an update_position for a
\* registered player, the last frame of every channel attached to the room is
\* the event of that submit, written by the broadcast of that submit; the
\* channel of a connection whose display name is the sender is no exception.
C14_NoEchoSuppression ==
    (/\ last.op = "post" /\ last.status = 200
     /\ last.data.action \in {"add", "remove", "clear", "update_position"}
     /\ last.data.action = "update_position" =>
            /\ Has(last.data, "sender") /\ Has(last.data, "position")
            /\ last.data.sender \in PlayerNames(rooms[last.room]))
        => \A c \in Clients(last.room) :
               /\ stamp[c][Len(stamp[c])] = nb[last.room]
               /\ chan[c][Len(chan[c])] =
                      CASE last.data.action = "add" ->
                               [type |-> "add", block |-> last.data.block,
                                sender |-> last.data.sender]
                        [] last.data.action = "remove" ->
                               [type |-> "remove", blockId |-> last.data.blockId,
                                sender |-> last.data.sender]
                        [] last.data.action = "clear" -> [type |-> "clear"]
                        [] last.data.action = "update_position" ->
                               [type |-> "player_moved", name |-> last.data.sender,
                                position |-> last.data.position]

\* Alice's update_position was written to the channel of the connection named
\* Alice and to the channel of another connection.
C14_Witness ==
    /\ last.op = "post" /\ last.data = MoveAlice /\ last.status = 200
    /\ \E c1, c2 \in Clients(last.room) :
           /\ conn[c1].name = "Alice" /\ conn[c2].name = "Bob"
           /\ chan[c1][Len(chan[c1])].type = "player_moved"
           /\ chan[c1][Len(chan[c1])].name = "Alice"
           /\ chan[c2][Len(chan[c2])] = chan[c1][Len(chan[c1])]

\* C15: a clear is answered with success, leaves room.blocks empty whatever
\* it held and appends the clear event to every channel that stays attached;
\* the init frame of a subscription that comes next holds no block.
C15_ClearEmptiesAndReachesAll ==
    [][/\ \A q \in Reqs :
              PostBody(q, ClearAll) =>
                  /\ last'.status = 200
                  /\ rooms'[post[q].room].blocks = <<>>
                  /\ \A c \in Range(rooms'[post[q].room].clients) :
                         chan'[c] = Append(chan[c], [type |-> "clear"])
       /\ \A c \in Conns : \A n \in Names :
              (/\ last.op = "post" /\ last.data = ClearAll
               /\ GetBody(c, last.room, n))
                  => /\ chan'[c][1].type = "init"
                     /\ chan'[c][1].blocks = <<>>]_vars

\* A channel that subscribed while the room held blocks has the clear event
\* as its second frame, and the room is empty.
C15_Witness ==
    /\ last.op = "post" /\ last.data = ClearAll /\ last.status = 200
    /\ rooms[last.room].blocks = <<>>
    /\ \E c \in Clients(last.room) :
           /\ chan[c][1].blocks # <<>>
           /\ Len(chan[c]) = 2
           /\ chan[c][2] = [type |-> "clear"]

\* C16: a submit whose broadcast meets a controller that throws on enqueue,
\* be it one of the subscribers or all of them, is answered with success, and
\* the room keeps what the submit did: the pushed block, the filtered or
\* emptied array, the moved player.
C16_WriteFailureNotSurfaced ==
    [][\A q \in Reqs : \A d \in Bodies :
        (/\ PostBody(q, d)
         /\ nb'[post[q].room] > nb[post[q].room]
         /\ \E c \in Clients(post[q].room) : conn[c].broken)
            => LET r == post[q].room
               IN  /\ last'.status = 200
                   /\ rooms'[r].blocks =
                          CASE d.action = "add" -> Append(rooms[r].blocks, d.block)
                            [] d.action = "remove" ->
                                   SelectSeq(rooms[r].blocks,
                                             LAMBDA b : b.id # d.blockId)
                            [] d.action = "clear" -> <<>>
                            [] OTHER -> rooms[r].blocks
                   /\ d.action = "update_position" =>
                          \E i \in DOMAIN rooms'[r].players :
                              rooms'[r].players[i] =
                                  [x |-> d.position.x, y |-> d.position.y,
                                   z |-> d.position.z, name |-> d.sender]
                   /\ d.action # "update_position" =>
                          rooms'[r].players = rooms[r].players]_vars

\* An add was answered with success and its block is in the room although
\* the write of its event failed on every subscriber of the room.
C16_Witness ==
    /\ last.op = "post" /\ last.data = AddB1 /\ last.status = 200
    /\ "b1" \in BlockIdsOf(BlocksIn(last.room))
    /\ Clients(last.room) = {}
    /\ \E c \in Conns :
           /\ conn[c].pc = "open" /\ conn[c].room = last.room /\ conn[c].broken
           /\ stamp[c][Len(stamp[c])] = nb[last.room] - 1

\* C17: a broadcast of a room removes from room.clients every controller of
\* the room whose enqueue throws; a controller that has left room.clients is
\* never put back and receives no further frame, and every controller in
\* room.clients holds the frame of the latest broadcast of its room that came
\* after its subscription (it has failed no write).
C17_FailedChannelDetached ==
    [][\A r \in RoomIds : \A c \in Conns :
        /\ (c \in Clients(r) /\ conn[c].broken /\ nb'[r] > nb[r])
               => c \notin Range(rooms'[r].clients)
        /\ (conn[c].pc \in {"open", "closed"} /\ conn[c].room = r
               /\ c \notin Clients(r))
               => (c \notin Range(rooms'[r].clients) /\ chan'[c] = chan[c])
        /\ (Exists(r)' /\ c \in Range(rooms'[r].clients) /\ nb'[r] > conn'[c].since)
               => stamp'[c][Len(stamp'[c])] = nb'[r]]_vars

\* A controller that an earlier broadcast detached after its write failed
\* was left alone by a later broadcast of the room, which wrote to another
\* controller.
C17_Witness ==
    \E r \in RoomIds : \E c1, c2 \in Conns :
        /\ conn[c1].pc = "open" /\ conn[c1].room = r /\ conn[c1].broken
        /\ c1 \notin Clients(r)
        /\ stamp[c1][Len(stamp[c1])] + 2 <= nb[r]
        /\ conn[c1].since + 2 <= nb[r]
        /\ c2 \in Clients(r)
        /\ Len(stamp[c2]) >= 2
        /\ stamp[c2][Len(stamp[c2])] = nb[r]

\* C18: no channel holds two frames written by the same broadcastToRoom call,
\* and no call wrote more frames to a channel than one.
C18_AtMostOncePerChannel ==
    \A c \in Conns :
        /\ \A i, j \in DOMAIN stamp[c] : i # j => stamp[c][i] # stamp[c][j]
        /\ conn[c].pc \in {"open", "closed"} =>
               Len(chan[c]) <= 1 + nb[conn[c].room] - conn[c].since

\* The latest broadcast of the room detached a controller during its
\* iteration (the controller had every earlier frame) and wrote its event
\* once to a controller that comes before it in room.clients.
C18_Witness ==
    \E r \in RoomIds : \E c1, c2 \in Conns :
        /\ c1 # c2
        /\ conn[c1].pc = "open" /\ conn[c1].room = r /\ conn[c1].broken
        /\ c1 \notin Clients(r)
        /\ conn[c1].since < nb[r]
        /\ stamp[c1][Len(stamp[c1])] < nb[r]
        /\ \A i \in (conn[c1].since + 1)..(nb[r] - 1) :
               \E j \in DOMAIN stamp[c1] : stamp[c1][j] = i
        /\ c2 \in Clients(r)
        /\ conn[c2].since < conn[c1].since
        /\ Cardinality({i \in DOMAIN stamp[c2] : stamp[c2][i] = nb[r]}) = 1

\* C19: a POST or a GET on a room id that is not in the store does not fail
\* for that reason: the room is created with no blocks, players or clients
\* and the handler goes on with it.  A well-formed submit is answered with
\* success and the room holds its effect and nothing else; a subscription
\* attaches, registers its player and gets an init frame with no blocks and
\* this player alone.
C19_UnknownRoomIsCreated ==
    [][/\ \A q \in Reqs : \A d \in Bodies :
              (PostBody(q, d) /\ ~Exists(post[q].room)) =>
                  LET r == post[q].room
                  IN  /\ rooms'[r] # NoRoom
                      /\ rooms'[r].clients = <<>>
                      /\ rooms'[r].players = <<>>
                      /\ d \in {AddB1, AddB2} =>
                             (last'.status = 200 /\ rooms'[r].blocks = <<d.block>>)
                      /\ d \in {RemoveB1, ClearAll, MoveAlice} =>
                             (last'.status = 200 /\ rooms'[r].blocks = <<>>)
                      /\ d = Paint => (last'.status = 400 /\ rooms'[r].blocks = <<>>)
       /\ \A c \in Conns : \A r \in RoomIds : \A n \in Names :
              (GetBody(c, r, n) /\ ~Exists(r)) =>
                  /\ conn'[c].pc = "open"
                  /\ rooms'[r] = [blocks |-> <<>>, clients |-> <<c>>,
                                  players |-> <<[x |-> 0, y |-> 0, z |-> 0, name |-> n]>>]
                  /\ chan'[c] = <<[type |-> "init", blocks |-> <<>>,
                                   players |-> <<[x |-> 0, y |-> 0, z |-> 0,
                                                  name |-> n]>>]>>]_vars

\* The first request on the room was an add: it was answered with success
\* and the room holds its block, no player and no subscriber.
C19_Witness ==
    /\ last.op = "post" /\ last.data = AddB1 /\ last.status = 200
    /\ nb[last.room] = 1
    /\ rooms[last.room] = [blocks |-> <<Block("b1")>>, clients |-> <<>>,
                           players |-> <<>>]
    /\ \A c \in Conns : conn[c].pc \in {"idle", "params"}
    /\ Cardinality({q \in Reqs : post[q].pc = "done"}) = 1

\* C20: a room that is in the store stays in it.  A later GET or POST on its
\* id works on the room as it is: a GET leaves the blocks alone, keeps every
\* player and every controller whose write does not fail, and a submit with
\* an unknown action leaves the room untouched.  The abort listener leaves
\* the blocks alone, so a room that has lost every subscriber and player
\* still holds them, and the init frame of the next subscription lists them.
C20_RoomPersists ==
    [][\A r \in RoomIds :
        Exists(r) =>
            /\ rooms'[r] # NoRoom
            /\ \A c \in Conns :
                   /\ \A n \in Names :
                          GetBody(c, r, n) =>
                              /\ rooms'[r].blocks = rooms[r].blocks
                              /\ PlayerNames(rooms[r]) \subseteq PlayerNames(rooms'[r])
                              /\ {k \in Clients(r) : ~conn[k].broken}
                                     \subseteq Range(rooms'[r].clients)
                              /\ chan'[c][1].blocks =
                                     [i \in DOMAIN rooms[r].blocks |->
                                         IF rooms[r].blocks[i] = Undefined
                                         THEN Null ELSE rooms[r].blocks[i]]
                   /\ (Close(c) /\ conn[c].room = r) =>
                          rooms'[r].blocks = rooms[r].blocks
            /\ \A q \in Reqs :
                   (PostBody(q, Paint) /\ post[q].room = r) => rooms'[r] = rooms[r]]_vars

\* The room lost its only subscriber and its only player while it held a
\* block; the next subscriber got the block in its init frame.
C20_Witness ==
    /\ last.op = "get"
    /\ rooms[last.room].clients = <<last.id>>
    /\ Len(rooms[last.room].players) = 1
    /\ \E c \in Conns \ {last.id} : conn[c].pc = "closed" /\ conn[c].room = last.room
    /\ \A c \in Conns \ {last.id} : conn[c].pc \in {"idle", "closed"}
    /\ rooms[last.room].blocks = <<Block("b1")>>
    /\ chan[last.id][1].blocks = <<Block("b1")>>

\* C21: a channel holds no frame before its subscription and, from then on,
\* exactly one init frame, which is its first frame; the subscription of
\* another connection adds no init frame to it.
C21_InitToNewChannelOnly ==
    \A c \in Conns :
        IF conn[c].pc \in {"idle", "params"}
        THEN chan[c] = <<>>
        ELSE /\ chan[c] # <<>>
             /\ {i \in DOMAIN chan[c] : chan[c][i].type = "init"} = {1}

\* Two connections subscribed to the room one after the other; the channel
\* of the first was written a frame since and holds its own init frame only.
C21_Witness ==
    \E c1, c2 \in Conns :
        /\ c1 # c2
        /\ conn[c1].room = conn[c2].room
        /\ conn[c1].pc = "open" /\ conn[c2].pc = "open"
        /\ conn[c1].since < conn[c2].since
        /\ Len(chan[c1]) >= 2
        /\ Len(chan[c2]) >= 1
        /\ chan[c1][Len(chan[c1])].type = "player_joined"
        /\ chan[c1][Len(chan[c1])].name = conn[c2].name

\* The step is the return of a handler run, or of an abort listener, on
\* room a.
StepOn(a) ==
    \/ \E c \in Conns : /\ conn[c].pc = "params" /\ conn'[c].pc = "open"
                         /\ conn'[c].room = a
    \/ \E c \in Conns : /\ conn[c].pc = "open" /\ conn'[c].pc = "closed"
                         /\ conn[c].room = a
    \/ \E q \in Reqs : /\ post[q].pc = "json" /\ post'[q].pc = "done"
                        /\ post[q].room = a

\* C22: a subscription, a submit or a disconnect on one room leaves every
\* other room of the store as it is (blocks, players, clients, absent or
\* not), makes no broadcast in it and writes no frame to the channel of any
\* connection of it.
C22_RoomsIsolated ==
    [][\A a, b \in RoomIds :
        (a # b /\ StepOn(a)) =>
            /\ rooms'[b] = rooms[b]
            /\ nb'[b] = nb[b]
            /\ \A c \in Conns : conn[c].room = b => chan'[c] = chan[c]]_vars

\* An add on one room was written to its subscriber while the other room has
\* a subscriber, a player and a block of its own with the same id.
C22_Witness ==
    \E a, b \in RoomIds :
        /\ a # b
        /\ last.op = "post" /\ last.room = a /\ last.data = AddB1
        /\ Exists(a) /\ Exists(b)
        /\ \E c \in Clients(a) : chan[c][Len(chan[c])].type = "add"
        /\ rooms[b].blocks = <<Block("b1")>>
        /\ \E c \in Clients(b) : Len(chan[c]) = 2 /\ chan[c][2].type = "add"
        /\ nb[a] = 2 /\ nb[b] = 2

\* C23: a subscription whose query carries no name adds no entry to
\* room.players and makes no broadcast (so no player_joined is written).
C23_NoNameNoPlayer ==
    [][\A c \in Conns : \A r \in RoomIds :
        GetBody(c, r, NoName) =>
            /\ rooms'[r].players = (IF Exists(r) THEN rooms[r].players ELSE <<>>)
            /\ nb'[r] = nb[r]
            /\ \A k \in Conns \ {c} : chan'[k] = chan[k]]_vars

\* C24: room.players never holds two entries of one name.  A subscription
\* under a name that is a player already leaves room.players as it is, the
\* position of that player included, and makes no broadcast; a subscription
\* under a name that is no player appends the player at (0,0,0).
C24_OnePlayerPerName ==
    [][/\ \A r \in RoomIds :
              rooms'[r] # NoRoom =>
                  \A i, j \in DOMAIN rooms'[r].players :
                      i # j => rooms'[r].players[i].name # rooms'[r].players[j].name
       /\ \A c \in Conns :
              (conn[c].pc = "params" /\ conn'[c].pc = "open") =>
                  LET r == conn'[c].room
                      n == conn'[c].name
                      before == IF Exists(r) THEN rooms[r].players ELSE <<>>
                  IN  IF \E i \in DOMAIN before : before[i].name = n
                      THEN /\ rooms'[r].players = before
                           /\ nb'[r] = nb[r]
                           /\ \A k \in Conns \ {c} : chan'[k] = chan[k]
                      ELSE rooms'[r].players =
                               Append(before, [x |-> 0, y |-> 0, z |-> 0, name |-> n])]_vars

\* A second connection subscribed under the name of a player who had moved
\* away from the origin: one player, still at the position moved to.
C24_Witness ==
    /\ last.op = "get" /\ ~last.fresh
    /\ Cardinality(Clients(last.room)) = 2
    /\ \A c \in Clients(last.room) : conn[c].name = last.name
    /\ rooms[last.room].players = <<[x |-> 2, y |-> 0, z |-> 3, name |-> last.name]>>

\* The step is the return of the POST handler of q with an update_position
\* body d whose sender is a player of the room.
MoveStep(q, d) ==
    /\ PostBody(q, d)
    /\ Exists(post[q].room)
    /\ d.sender \in PlayerNames(rooms[post[q].room])

\* What an effective update_position does to the players, the blocks and the
\* channels, and what the next init frame reports.
MoveEffect(q, d) ==
    LET r == post[q].room
    IN  /\ last'.status = 200
        /\ rooms'[r].players =
               [i \in DOMAIN rooms[r].players |->
                   IF rooms[r].players[i].name = d.sender
                   THEN [x |-> d.position.x, y |-> d.position.y,
                         z |-> d.position.z, name |-> d.sender]
                   ELSE rooms[r].players[i]]
        /\ rooms'[r].blocks = rooms[r].blocks
        /\ \A c \in Range(rooms'[r].clients) :
               chan'[c] = Append(chan[c],
                   [type |-> "player_moved", name |-> d.sender,
                    position |-> d.position])

\* The init frame of a subscription that comes right after an effective
\* update_position lists the sender at the submitted position.
InitReportsLastMove ==
    \A c \in Conns :
        (/\ conn[c].pc = "params" /\ conn'[c].pc = "open"
         /\ last.op = "post" /\ last.status = 200
         /\ last.data \in {MoveAlice, MoveAliceOn}
         /\ conn'[c].room = last.room
         /\ last.data.sender \in PlayerNames(rooms[last.room]))
            => \E i \in DOMAIN chan'[c][1].players :
                   chan'[c][1].players[i] =
                       [x |-> last.data.position.x, y |-> last.data.position.y,
                        z |-> last.data.position.z, name |-> last.data.sender]

\* C25 as stated: an update_position of a known player overwrites x, y, z of
\* that player alone, leaves the other players, room.blocks and room.clients
\* unchanged, and writes player_moved to the channels; the next init frame
\* reports the position submitted last.
C25_MoveFrame ==
    [][/\ \A q \in Reqs : \A d \in {MoveAlice, MoveAliceOn} :
              MoveStep(q, d) =>
                  /\ MoveEffect(q, d)
                  /\ rooms'[post[q].room].clients = rooms[post[q].room].clients
       /\ InitReportsLastMove]_vars

\* C25 amended: as above, but room.clients loses the controllers whose write
\* of player_moved throws, and only those.
C25_MoveFrameButFailedWrites ==
    [][/\ \A q \in Reqs : \A d \in {MoveAlice, MoveAliceOn} :
              MoveStep(q, d) =>
                  /\ MoveEffect(q, d)
                  /\ rooms'[post[q].room].clients =
                         SelectSeq(rooms[post[q].room].clients,
                                   LAMBDA c : ~conn[c].broken)
       /\ InitReportsLastMove]_vars

\* Alice moved twice while Bob was a player: Bob is where he was, Alice is
\* at the position submitted last, and both channels hold both events.
C25_Witness ==
    /\ last.op = "post" /\ last.data = MoveAliceOn /\ last.status = 200
    /\ rooms[last.room].players =
           <<[x |-> 5, y |-> 1, z |-> 5, name |-> "Alice"],
             [x |-> 0, y |-> 0, z |-> 0, name |-> "Bob"]>>
    /\ Cardinality(Clients(last.room)) = 2
    /\ \A c \in Clients(last.room) :
           /\ Len(chan[c]) >= 3
           /\ chan[c][Len(chan[c]) - 1] =
                  [type |-> "player_moved", name |-> "Alice", position |-> Moved]
           /\ chan[c][Len(chan[c])] =
                  [type |-> "player_moved", name |-> "Alice", position |-> MovedOn]

\* C26: the playerCount of every player_joined and every player_left frame
\* is the size of room.players right after the registration or the removal
\* that the frame reports, i.e. at the end of the step that wrote the frame.
C26_CountIsResultingCount ==
    [][\A c \in Conns :
        (/\ Len(chan'[c]) > Len(chan[c])
         /\ chan'[c][Len(chan'[c])].type \in {"player_joined", "player_left"})
            => chan'[c][Len(chan'[c])].playerCount =
                   Len(rooms'[conn'[c].room].players)]_vars

\* A channel was told of a second player joining (count 2) and then of that
\* player leaving (count 1).
C26_Witness ==
    \E c \in Conns :
        /\ Len(chan[c]) = 3
        /\ chan[c][2] = [type |-> "player_joined", name |-> "Bob", playerCount |-> 2]
        /\ chan[c][3] = [type |-> "player_left", name |-> "Bob", playerCount |-> 1]
        /\ PlayerNames(rooms[conn[c].room]) = {"Alice"}

\* C27: a channel is written broadcast events only between its subscription
\* and the run of its abort listener.  It holds nothing before the handler
\* attached it and just the init frame right after (the player_joined of its
\* own subscription is not on it); the step of its abort listener and every
\* later step leave it as it is (the player_left of its own close is not on
\* it); a closed connection stays closed and out of room.clients.
C27_DeliveredOnlyWhileSubscribed ==
    [][\A c \in Conns :
        /\ conn[c].pc \in {"idle", "params"} => chan[c] = <<>>
        /\ (conn[c].pc = "params" /\ conn'[c].pc = "open") =>
               (Len(chan'[c]) = 1 /\ chan'[c][1].type = "init")
        /\ conn'[c].pc = "closed" =>
               /\ chan'[c] = chan[c]
               /\ c \notin Range(rooms'[conn'[c].room].clients)
        /\ conn[c].pc = "closed" => conn'[c] = conn[c]]_vars

\* A connection that registered its player received a broadcast while it was
\* subscribed and was then closed: another channel holds its player_left,
\* its own channel holds neither its player_joined nor its player_left.
C27_Witness ==
    \E c, k \in Conns :
        /\ c # k
        /\ conn[c].pc = "closed" /\ conn[c].fresh
        /\ Len(chan[c]) >= 2
        /\ \A i \in DOMAIN chan[c] :
               chan[c][i].type \in {"player_joined", "player_left"}
                   => chan[c][i].name # conn[c].name
        /\ k \in Clients(conn[c].room)
        /\ chan[k][Len(chan[k])].type = "player_left"
        /\ chan[k][Len(chan[k])].name = conn[c].name

\* C28: every remove submit is answered with success, whatever the room
\* holds and whatever was answered to the submits before it.
C28_RemoveNeverFails ==
    (last.op = "post" /\ last.data.action = "remove") => last.status = 200

\* The cleanup of connection c is in effect: its controller is not in
\* room.clients and the player its handler registered is not in
\* room.players.
CleanedUp(c) ==
    /\ conn[c].pc \in {"open", "closed"}
    /\ c \notin Clients(conn[c].room)
    /\ conn[c].fresh => conn[c].name \notin PlayerNames(rooms[conn[c].room])

\* C29: a connection whose request is aborted at some point, be it before or
\* after the handler registered its abort listener, is cleaned up at some
\* point.
C29_ClosedIsCleanedUp ==
    \A c \in Conns :
        <>(conn[c].aborted) => <>(conn[c].aborted /\ CleanedUp(c))

\* The array a receiver holds after one more frame, when it applies to it
\* what the server applied to room.blocks: init replaces it, add pushes the
\* block, remove filters the id out, clear empties it, the player events
\* leave it alone.
ReplayFrame(blocks, ev) ==
    CASE ev.type = "init" -> ev.blocks
      [] ev.type = "add" -> Append(blocks, ev.block)
      [] ev.type = "remove" ->
             SelectSeq(blocks, LAMBDA b :
                 ~(Has(ev, "blockId") /\ b # Null /\ b.id = ev.blockId))
      [] ev.type = "clear" -> <<>>
      [] OTHER -> blocks

RECURSIVE Replay(_, _, _)
Replay(frames, i, blocks) ==
    IF i > Len(frames) THEN blocks
    ELSE Replay(frames, i + 1, ReplayFrame(blocks, frames[i]))

\* C30: for every channel in room.clients, the replay of its frames in order
\* yields room.blocks as the server holds it (as JSON writes it).
C30_ReplayYieldsRoomBlocks ==
    \A r \in RoomIds : \A c \in Clients(r) :
        Replay(chan[c], 1, <<>>) =
            [i \in DOMAIN rooms[r].blocks |->
                IF rooms[r].blocks[i] = Undefined THEN Null ELSE rooms[r].blocks[i]]

\* C31: an add with a block leaves room.blocks as it was with the block
\* after its last entry; a remove that is answered with success leaves the
\* entries whose id is not blockId, in the order they had; the init frame of
\* a subscription lists room.blocks in its order.
C31_OrderOfAddsIsKept ==
    [][/\ \A q \in Reqs :
              (post[q].pc = "json" /\ post'[q].pc = "done" /\ last'.op = "post") =>
                  LET d == last'.data
                      before == BlocksIn(post[q].room)
                      after == rooms'[post[q].room].blocks
                  IN  /\ (d.action = "add" /\ Has(d, "block")) =>
                             /\ Len(after) = Len(before) + 1
                             /\ after[Len(after)] = d.block
                             /\ \A i \in DOMAIN before : after[i] = before[i]
                      /\ (d.action = "remove" /\ last'.status = 200) =>
                             after = SelectSeq(before, LAMBDA b : b.id # d.blockId)
       /\ \A c \in Conns :
              (conn[c].pc = "params" /\ conn'[c].pc = "open") =>
                  /\ Len(chan'[c][1].blocks) = Len(rooms'[conn'[c].room].blocks)
                  /\ \A i \in DOMAIN chan'[c][1].blocks :
                         chan'[c][1].blocks[i] \in {rooms'[conn'[c].room].blocks[i], Null}]_vars

\* Three blocks were added, b3 before b2 and b1 somewhere; after the remove
\* of b1 the room holds the two others in the order of their adds.
C31_Witness ==
    /\ last.op = "post" /\ last.data = RemoveB1 /\ last.status = 200
    /\ rooms[last.room].blocks = <<Block("b3"), Block("b2")>>
    /\ Cardinality({q \in Reqs : post[q].pc = "done"}) = 4

\* Values of the sender field: two display names and a name no connection
\* ever used.
Senders == {"Alice", "Bob", "Mallory"}

\* C33: what an add, a remove or a clear does to room.blocks, and the status
\* it is answered with, are the same for every value of sender: the step
\* left room.blocks as the same submit under any other sender would have.
C33_SenderIsIgnored ==
    [][\A q \in Reqs :
        (/\ post[q].pc = "json" /\ post'[q].pc = "done" /\ last'.op = "post"
         /\ last'.data.action \in {"add", "remove", "clear"}) =>
            \A s \in Senders :
                LET r == post[q].room
                    other == Submit(Sys, r, [last'.data EXCEPT !.sender = s])
                IN  /\ other.sys.rooms[r].blocks = rooms'[r].blocks
                    /\ other.status = last'.status]_vars

\* Bob, who is no player of the room, removed the block that Alice had
\* added: a subscriber was written the add and then the remove, and the room
\* is empty.
C33_Witness ==
    /\ last.op = "post" /\ last.data = RemoveB1 /\ last.status = 200
    /\ rooms[last.room].blocks = <<>>
    /\ "Bob" \notin PlayerNames(rooms[last.room])
    /\ \E c \in Clients(last.room) :
           /\ Len(chan[c]) >= 3
           /\ chan[c][Len(chan[c]) - 1] =
                  [type |-> "add", block |-> Block("b1"), sender |-> "Alice"]
           /\ chan[c][Len(chan[c])] =
                  [type |-> "remove", blockId |-> "b1", sender |-> "Bob"]

\* C34: every connection that is subscribed (its controller is in
\* room.clients and its abort listener has not run) under name N has a
\* player named N in room.players.
C34_SubscribedHasPlayer ==
    \A c \in Conns :
        (conn[c].pc = "open" /\ c \in Clients(conn[c].room))
            => conn[c].name \in PlayerNames(rooms[conn[c].room])


\* C35: in every reachable state every Player of room.players belongs to at
\* least one connection whose channel is in the room's subscriber set; the
\* detaching of a channel after a failed broadcast write never leaves a Player
\* registered without an attached channel.
C35_PlayerHasChannel ==
    \A r \in RoomIds :
        Exists(r) =>
            \A n \in PlayerNames(rooms[r]) :
                \E c \in Clients(r) : conn[c].room = r /\ conn[c].name = n


\* The player_joined and player_left frames of name n in frames[i..] alternate,
\* given that n is present (listed or joined, and not left since) before
\* frames[i].
RECURSIVE Alternates(_, _, _, _)
Alternates(frames, i, n, present) ==
    IF i > Len(frames) THEN TRUE
    ELSE LET ev == frames[i]
         IN  CASE ev.type = "player_joined" /\ ev.name = n ->
                      ~present /\ Alternates(frames, i + 1, n, TRUE)
               [] ev.type = "player_left" /\ ev.name = n ->
                      present /\ Alternates(frames, i + 1, n, FALSE)
               [] OTHER -> Alternates(frames, i + 1, n, present)

\* The names the init frame lists.
ListedIn(ev) == {ev.players[i].name : i \in DOMAIN ev.players}

\* C36: on every channel the player_joined and player_left events of a name
\* alternate, starting with player_joined or with the name listed in init, and
\* a player_left is only broadcast for a name that was in room.players just
\* before the disconnect (so no more player_left than registrations).
C36_JoinedAndLeftAlternate ==
    /\ [](\A c \in Conns : \A n \in Names :
            chan[c] # <<>> =>
                /\ chan[c][1].type = "init"
                /\ Alternates(chan[c], 2, n, n \in ListedIn(chan[c][1])))
    /\ [][\A c \in Conns :
            (conn[c].pc = "open" /\ conn'[c].pc = "closed")
                => conn[c].name \in PlayerNames(rooms[conn[c].room])]_vars


\* C32: after a stream error the tab opens a new subscription when the
\* 3000 ms timer fires, and every frame of that new subscription that
\* reaches the tab, the init snapshot first, is processed by handleSseEvent,
\* which reconciles the tab's blocks with the room's.
C32_ReconnectIsHandled ==
    [][\A k \in Tabs :
        (/\ client[k].opened > 1
         /\ client'[k].es = client[k].es
         /\ client'[k].read = client[k].read + 1)
            => client'[k] = handleSseEvent([client[k] EXCEPT !.read = @ + 1],
                                           chan[client[k].es][client[k].read + 1])]_vars


\* The ids of the blocks a tab holds in its blocks state.
LocalIds(k) == {client[k].blocks[i].id : i \in DOMAIN client[k].blocks}
\* The tab is connected: its first EventSource, with its handlers, is
\* attached to the room and its transport is up.
Connected(k) ==
    /\ client[k].es # 0
    /\ client[k].opened = 1
    /\ ~client[k].timer
    /\ conn[client[k].es].pc = "open"
    /\ ~conn[client[k].es].broken
    /\ client[k].es \in Clients("r1")
\* Every submit is acknowledged and every frame written has been handled.
Settled ==
    /\ \A q \in Reqs : post[q].pc \in {"idle", "done"}
    /\ \A k \in Tabs : client[k].es # 0 =>
           /\ conn[client[k].es].pc # "params"
           /\ client[k].read = Len(chan[client[k].es])

\* C37: once every submit has been acknowledged and every broadcast event has
\* been handled, the ids of the blocks every connected tab holds are the ids
\* of the server's room.blocks (the tab skips the add and remove events it
\* sent itself).
C37_TabsConverge ==
    Settled => \A k \in Tabs : Connected(k) => LocalIds(k) = BlockIdsOf(BlocksIn("r1"))

====
